---- MODULE Spec2Model ----
(***************************************************************************)
(* A model of the revrseai Python SDK: the SchemaObject value model        *)
(* (models/schema.py), the Endpoint record that documents itself with it   *)
(* (models/endpoint.py), the RevrseAI client's requests, error mapping,    *)
(* fetch operations and execute dispatch (client.py), and the Task records *)
(* with their wait_till_done loop (models/task.py).                        *)
(*                                                                         *)
(* JSON values are tagged records, so that values of different Python      *)
(* types can be told apart and compared:                                   *)
(*   None  [k |-> "null"]          bool  [k |-> "bool", v |-> TRUE]        *)
(*   int   [k |-> "int", v |-> 0]  float [k |-> "float", v |-> 0]          *)
(*   str   [k |-> "str", v |-> "a"]                                        *)
(*   list  [k |-> "list", v |-> <<e1, e2>>]                                *)
(*   dict  [k |-> "dict", v |-> << <<key1, val1>>, <<key2, val2>> >>]      *)
(* A dict keeps its insertion order (a sequence of key/value pairs with    *)
(* distinct keys), as a Python dict does.  A text is the sequence of its   *)
(* lines; the strings of the model hold no newline.                        *)
(***************************************************************************)
EXTENDS Integers, Sequences, FiniteSets, TLC

VARIABLES
    data,      \* the raw schema mapping handed to the SDK
    schema,    \* the SchemaObject parsed from it (None before the parse)
    pc,        \* the operation that produced the current state
    arg,       \* the argument of that operation (None when it takes none)
    result,    \* what the operation returned
    raised,    \* the exception the operation raised ("" when it returned)
    endpoint,  \* the Endpoint record (None before its construction)
    call,      \* the arguments of the client call in progress
    sent,      \* the HTTP requests the last client operation sent, in order
    received,  \* the last HTTP response the client received (None before)
    task,      \* the Task or TaskDetailed record a method is called on
    server,    \* the stage the server holds for the task (None: no task)
    log        \* what wait_till_done has done so far: fetches and sleeps

vars == <<data, schema, pc, arg, result, raised, endpoint, call, sent,
          received, task, server, log>>

(***************************************************************************)
(* Bounds of the model.                                                    *)
(***************************************************************************)
\* the counters of the wait_till_done log count up to MaxCount and stay there
MaxCount == 3
\* keys of a flat input mapping
MaxKeys == 2
\* nesting depth of the input mappings (through items and properties)
MaxDepth == 2

(***************************************************************************)
(* JSON values.                                                            *)
(***************************************************************************)
None == [k |-> "null"]
B(b) == [k |-> "bool", v |-> b]
I(n) == [k |-> "int", v |-> n]
F(n) == [k |-> "float", v |-> n]
S(s) == [k |-> "str", v |-> s]
L(q) == [k |-> "list", v |-> q]
D(q) == [k |-> "dict", v |-> q]

\* x is None
IsNone(x) == x.k = "null"
\* isinstance(x, dict)
IsDict(x) == x.k = "dict"

\* bool(x): Python's truth value of a JSON value
Truthy(x) ==
    CASE x.k = "null"  -> FALSE
      [] x.k = "bool"  -> x.v
      [] x.k = "int"   -> x.v # 0
      [] x.k = "float" -> x.v # 0
      [] x.k = "str"   -> x.v # ""
      [] x.k = "list"  -> Len(x.v) > 0
      [] x.k = "dict"  -> Len(x.v) > 0
      [] OTHER         -> TRUE

\* the keys of a sequence of key/value pairs, in order
KeySeq(q) == [i \in 1..Len(q) |-> q[i][1]]
KeySet(q) == {q[i][1] : i \in 1..Len(q)}
\* key in d
HasKey(q, key) == \E i \in 1..Len(q) : q[i][1] = key
\* d[key]
Lookup(q, key) == q[CHOOSE i \in 1..Len(q) : q[i][1] = key][2]
\* d.get(key, default)
DictGet(q, key, default) == IF HasKey(q, key) THEN Lookup(q, key) ELSE default

\* d[key] = val: replaces in place, or appends a new key
DictSet(q, key, val) ==
    IF HasKey(q, key)
    THEN [i \in 1..Len(q) |-> IF q[i][1] = key THEN <<key, val>> ELSE q[i]]
    ELSE Append(q, <<key, val>>)

\* d.update(e)
RECURSIVE DictUpdate(_, _)
DictUpdate(q, e) ==
    IF e = <<>> THEN q
    ELSE DictUpdate(DictSet(q, Head(e)[1], Head(e)[2]), Tail(e))

(***************************************************************************)
(* SchemaObject (models/schema.py).                                        *)
(***************************************************************************)
known_fields ==
    {"type", "format", "description", "title", "nullable",
     "enum", "example", "properties", "required", "items"}

\* the dataclass constructor; properties is a sequence of <<name, SchemaObject>>
SchemaObject(type, format, description, title, nullable, enum, example, properties, required, items, extra) ==
    [k |-> "schema", type |-> type, format |-> format,
     description |-> description, title |-> title, nullable |-> nullable,
     enum |-> enum, example |-> example, properties |-> properties,
     required |-> required, items |-> items, _extra |-> extra]

\* cls(): every field at its default
DefaultSchema ==
    SchemaObject(None, None, None, None, B(FALSE), None, None,
                 <<>>, L(<<>>), None, <<>>)

\* {k: v for k, v in data.items() if k not in known_fields}
ExtraOf(q) == SelectSeq(q, LAMBDA p : p[1] \notin known_fields)

RECURSIVE from_dict(_)
\* the properties loop of from_dict, mutated: a non-mapping property is skipped
RECURSIVE ParseProperties_Skip(_)
ParseProperties_Skip(q) ==
    IF q = <<>> THEN <<>>
    ELSE IF IsDict(Head(q)[2])
         THEN << <<Head(q)[1], from_dict(Head(q)[2])>> >>
              \o ParseProperties_Skip(Tail(q))
         ELSE ParseProperties_Skip(Tail(q))

\* for name, prop_data in data["properties"].items(): properties[name] = ...
ParseProperties(q) ==
    [i \in 1..Len(q) |->
        <<q[i][1],
          IF IsDict(q[i][2]) THEN from_dict(q[i][2]) ELSE DefaultSchema>>]

\* from_dict, mutated: the extra bag is left empty
from_dict_NoExtra(d) ==
    LET q == d.v IN
    SchemaObject(
        DictGet(q, "type", None), DictGet(q, "format", None),
        DictGet(q, "description", None), DictGet(q, "title", None),
        DictGet(q, "nullable", B(FALSE)), DictGet(q, "enum", None),
        DictGet(q, "example", None),
        IF HasKey(q, "properties")
        THEN ParseProperties(Lookup(q, "properties").v) ELSE <<>>,
        DictGet(q, "required", L(<<>>)),
        IF HasKey(q, "items") /\ IsDict(Lookup(q, "items"))
        THEN from_dict(Lookup(q, "items")) ELSE None,
        <<>>)

\* SchemaObject.from_dict(data), data a dict whose "properties", if present,
\* is a dict
from_dict(d) ==
    LET q == d.v IN
    SchemaObject(
        DictGet(q, "type", None), DictGet(q, "format", None),
        DictGet(q, "description", None), DictGet(q, "title", None),
        DictGet(q, "nullable", B(FALSE)), DictGet(q, "enum", None),
        DictGet(q, "example", None),
        IF HasKey(q, "properties")
        THEN ParseProperties(Lookup(q, "properties").v) ELSE <<>>,
        DictGet(q, "required", L(<<>>)),
        IF HasKey(q, "items") /\ IsDict(Lookup(q, "items"))
        THEN from_dict(Lookup(q, "items")) ELSE None,
        ExtraOf(q))

\* if cond: result[key] = val
Emit(cond, key, val) == IF cond THEN << <<key, val>> >> ELSE <<>>

RECURSIVE to_dict(_)
\* {name: prop.to_dict() for name, prop in self.properties.items()}
PropertiesToDict(props) ==
    D([i \in 1..Len(props) |-> <<props[i][1], to_dict(props[i][2])>>])

\* the known fields to_dict emits, before the extra bag is merged
KnownToDict(s) ==
    Emit(Truthy(s.type), "type", s.type)
    \o Emit(Truthy(s.format), "format", s.format)
    \o Emit(Truthy(s.description), "description", s.description)
    \o Emit(Truthy(s.title), "title", s.title)
    \o Emit(Truthy(s.nullable), "nullable", B(TRUE))
    \o Emit(Truthy(s.enum), "enum", s.enum)
    \o Emit(~IsNone(s.example), "example", s.example)
    \o Emit(Len(s.properties) > 0, "properties", PropertiesToDict(s.properties))
    \o Emit(Truthy(s.required), "required", s.required)
    \o Emit(~IsNone(s.items), "items",
            IF IsNone(s.items) THEN None ELSE to_dict(s.items))

\* to_dict, mutated: the extra bag is not merged into the result
to_dict_NoExtra(s) == D(KnownToDict(s))

\* to_dict, mutated: the nullable test is inverted
to_dict_NotNullable(s) ==
    D(DictUpdate(
        Emit(Truthy(s.type), "type", s.type)
        \o Emit(Truthy(s.format), "format", s.format)
        \o Emit(Truthy(s.description), "description", s.description)
        \o Emit(Truthy(s.title), "title", s.title)
        \o Emit(~Truthy(s.nullable), "nullable", B(TRUE))
        \o Emit(Truthy(s.enum), "enum", s.enum)
        \o Emit(~IsNone(s.example), "example", s.example)
        \o Emit(Len(s.properties) > 0, "properties",
                PropertiesToDict(s.properties))
        \o Emit(Truthy(s.required), "required", s.required)
        \o Emit(~IsNone(s.items), "items",
                IF IsNone(s.items) THEN None ELSE to_dict(s.items)),
        s._extra))

\* SchemaObject.to_dict()
to_dict(s) == D(DictUpdate(KnownToDict(s), s._extra))

RECURSIVE example_data(_)
\* {name: prop.example_data() for name, prop in self.properties.items()}
PropertiesExample(props) ==
    D([i \in 1..Len(props) |-> <<props[i][1], example_data(props[i][2])>>])

\* the example by type alone: the array and primitive cases of example_data
TypeExample(s) ==
    IF s.type = S("array")
    THEN IF IsNone(s.items) THEN L(<<>>) ELSE L(<<example_data(s.items)>>)
    ELSE IF s.type = S("string") THEN S("...")
    ELSE IF s.type = S("integer") THEN I(0)
    ELSE IF s.type = S("number") THEN F(0)
    ELSE IF s.type = S("boolean") THEN B(FALSE)
    ELSE None

\* example_data, mutated: the enum is consulted before the example
example_data_EnumFirst(s) ==
    IF Truthy(s.enum) THEN s.enum.v[1]
    ELSE IF ~IsNone(s.example) THEN s.example
    ELSE IF s.type = S("object") \/ Len(s.properties) > 0
    THEN PropertiesExample(s.properties)
    ELSE TypeExample(s)

\* SchemaObject.example_data(); enum, when truthy, is a list
example_data(s) ==
    IF ~IsNone(s.example) THEN s.example
    ELSE IF Truthy(s.enum) THEN s.enum.v[1]
    ELSE IF s.type = S("object") \/ Len(s.properties) > 0
    THEN PropertiesExample(s.properties)
    ELSE TypeExample(s)

RECURSIVE _format_type(_)
\* _format_type, mutated: the format suffix is applied after the array wrapping
_format_type_FormatLast(s) ==
    LET t0 == IF Truthy(s.type) THEN s.type.v ELSE "any"
        t1 == IF s.type = S("array") /\ ~IsNone(s.items)
              THEN "array[" \o _format_type(s.items) \o "]" ELSE t0
        t2 == IF Truthy(s.format) THEN t1 \o " (" \o s.format.v \o ")" ELSE t1
    IN  IF Truthy(s.nullable) THEN t2 \o "?" ELSE t2

\* SchemaObject._format_type(); type and format, when truthy, are strings
_format_type(s) ==
    LET t0 == IF Truthy(s.type) THEN s.type.v ELSE "any"
        t1 == IF Truthy(s.format) THEN t0 \o " (" \o s.format.v \o ")" ELSE t0
        t2 == IF s.type = S("array") /\ ~IsNone(s.items)
              THEN "array[" \o _format_type(s.items) \o "]" ELSE t1
    IN  IF Truthy(s.nullable) THEN t2 \o "?" ELSE t2

\* name in required_fields, required_fields a list
InList(name, lst) == \E i \in 1..Len(lst.v) : lst.v[i] = S(name)

\* f"| {name} | {type_str} | {is_required} | {desc} |"
TableRow(name, type_str, is_required, desc) ==
    "| " \o name \o " | " \o type_str \o " | " \o is_required
         \o " | " \o desc \o " |"

TableHeader ==
    <<"| Field | Type | Required | Description |",
      "|-------|------|----------|-------------|">>

\* required_fields or self.required or []
EffectiveRequired(s, required_fields) ==
    IF Truthy(required_fields) THEN required_fields
    ELSE IF Truthy(s.required) THEN s.required
    ELSE L(<<>>)

\* the row of one property: the body of the loop of to_markdown_table
PropertyRow(name, prop, required) ==
    TableRow(name, _format_type(prop),
             IF InList(name, required) THEN "Yes" ELSE "No",
             IF Truthy(prop.description) THEN prop.description.v ELSE "-")

\* to_markdown_table, mutated: the properties are listed in reverse order
to_markdown_table_Reversed(s, required_fields) ==
    IF Len(s.properties) = 0 THEN <<"_No fields_">>
    ELSE LET required == EffectiveRequired(s, required_fields)
             n == Len(s.properties)
         IN  TableHeader \o
             [i \in 1..n |->
                 PropertyRow(s.properties[n + 1 - i][1],
                             s.properties[n + 1 - i][2], required)]

\* SchemaObject.to_markdown_table(required_fields): the lines of the text
to_markdown_table(s, required_fields) ==
    IF Len(s.properties) = 0 THEN <<"_No fields_">>
    ELSE LET required == EffectiveRequired(s, required_fields)
         IN  TableHeader \o
             [i \in 1..Len(s.properties) |->
                 PropertyRow(s.properties[i][1], s.properties[i][2], required)]

(***************************************************************************)
(* The schema mappings the model feeds to the SDK.                         *)
(***************************************************************************)
\* the keys of an input mapping: the ten known fields and one unknown key
InputKeys == known_fields \cup {"x-ext"}

PropNames == {"a", "b"}

\* the values an input mapping holds under a key, nested schemas apart
ScalarVals(key) ==
    CASE key = "type" ->
            {S(""), S("object"), S("array"), S("string"), S("integer"),
             S("number"), S("boolean")}
      [] key = "format"      -> {S(""), S("date-time")}
      [] key = "description" -> {S(""), S("text")}
      [] key = "title"       -> {S(""), S("Title")}
      [] key = "nullable"    -> {B(TRUE), B(FALSE)}
      [] key = "enum"        -> {L(<<>>), L(<<S("b"), S("a")>>)}
      [] key = "example"     ->
            {None, B(FALSE), S("sample"), D(<< <<"q", I(1)>> >>)}
      [] key = "required"    -> {L(<<>>), L(<<S("a")>>)}
      [] key = "items"       -> {I(5)}
      [] key = "properties"  -> {D(<<>>)}
      [] key = "x-ext"       -> {I(1), D(<< <<"type", S("string")>> >>)}

\* the key/value sequences of at most n distinct keys, in every order
RECURSIVE FlatSeqs(_)
FlatSeqs(n) ==
    IF n = 0 THEN {<<>>}
    ELSE LET P == FlatSeqs(n - 1)
         IN  P \cup
             UNION {UNION {{Append(q, <<key, val>>) : val \in ScalarVals(key)}
                           : key \in InputKeys \ KeySet(q)}
                    : q \in {r \in P : Len(r) = n - 1}}

Flat(n) == {D(q) : q \in FlatSeqs(n)}

\* the array schemas over an items schema c
ArraysOf(c) ==
    {D(<< <<"type", S("array")>>, <<"items", c>> >>),
     D(<< <<"items", c>>, <<"nullable", B(TRUE)>>, <<"type", S("array")>> >>),
     D(<< <<"type", S("array")>>, <<"format", S("date-time")>>,
         <<"items", c>> >>)}

\* the object schemas with the one property a: c
ObjectsOf(c) ==
    {D(<< <<"properties", D(<< <<"a", c>> >>)>> >>),
     D(<< <<"x-ext", I(1)>>, <<"type", S("object")>>,
         <<"properties", D(<< <<"a", c>> >>)>>,
         <<"required", L(<<S("a")>>)>> >>)}

\* the schemas nested to depth d at most
RECURSIVE Nested(_)
Nested(d) ==
    IF d = 0 THEN Flat(1)
    ELSE LET C == Nested(d - 1)
         IN  C \cup UNION {ArraysOf(c) \cup ObjectsOf(c) : c \in C}

\* what a property of a two-property object holds: a flat schema or a
\* value that is no mapping
PropVals == Flat(1) \cup {I(5), S("bad")}

\* the objects with the two properties a and b, in either order
TwoProps ==
    UNION {{D(<< <<"properties", D(<< <<n1, v1>>, <<n2, v2>> >>)>> >>),
            D(<< <<"required", L(<<S(n2)>>)>>,
                <<"properties", D(<< <<n1, v1>>, <<n2, v2>> >>)>> >>)}
           : <<n1, n2, v1, v2>> \in
                {t \in PropNames \X PropNames \X PropVals \X PropVals :
                    t[1] # t[2]}}

Schemas == Flat(MaxKeys) \cup Nested(MaxDepth) \cup TwoProps

\* the overrides handed to to_markdown_table
Overrides == {None, L(<<>>), L(<<S("a")>>), L(<<S("b")>>)}

(***************************************************************************)
(* The schema operations.                                                  *)
(***************************************************************************)
NoCall == [method |-> "none"]

\* the log before wait_till_done has done anything: the update() calls that
\* fetched, the sleeps, and the requests sent without and with details
NoLog == [polls |-> 0, sleeps |-> 0, basic |-> 0, detailed |-> 0]

Init ==
    /\ data \in Schemas
    /\ schema = None
    /\ pc = "init"
    /\ arg = None
    /\ result = None
    /\ raised = ""
    /\ endpoint = None
    /\ call = NoCall
    /\ sent = <<>>
    /\ received = None
    /\ task = None
    /\ server = None
    /\ log = NoLog

\* schema = SchemaObject.from_dict(data)
FromDict ==
    /\ pc = "init"
    /\ schema' = from_dict(data)
    /\ pc' = "from_dict"
    /\ UNCHANGED <<data, arg, result, raised, endpoint, call, sent,
                   received, task, server, log>>

\* result = schema.to_dict()
ToDict ==
    /\ pc = "from_dict"
    /\ result' = to_dict(schema)
    /\ pc' = "to_dict"
    /\ UNCHANGED <<data, schema, arg, raised, endpoint, call, sent,
                   received, task, server, log>>

\* result = SchemaObject.from_dict(out).to_dict(), out the mapping to_dict gave
Reserialize ==
    /\ pc = "to_dict"
    /\ arg' = result
    /\ schema' = from_dict(result)
    /\ result' = to_dict(from_dict(result))
    /\ pc' = "reserialized"
    /\ UNCHANGED <<data, raised, endpoint, call, sent,
                   received, task, server, log>>

\* result = schema.example_data()
ExampleData ==
    /\ pc = "from_dict"
    /\ result' = example_data(schema)
    /\ pc' = "example_data"
    /\ UNCHANGED <<data, schema, arg, raised, endpoint, call, sent,
                   received, task, server, log>>

\* result = schema._format_type()
FormatType ==
    /\ pc = "from_dict"
    /\ result' = S(_format_type(schema))
    /\ pc' = "_format_type"
    /\ UNCHANGED <<data, schema, arg, raised, endpoint, call, sent,
                   received, task, server, log>>

\* result = schema.to_markdown_table(required_fields)
ToMarkdownTable ==
    /\ pc = "from_dict"
    /\ \E required_fields \in Overrides :
          /\ arg' = required_fields
          /\ result' = to_markdown_table(schema, required_fields)
    /\ pc' = "to_markdown_table"
    /\ UNCHANGED <<data, schema, raised, endpoint, call, sent,
                   received, task, server, log>>

(***************************************************************************)
(* Endpoint (models/endpoint.py).                                          *)
(***************************************************************************)
\* what a call gives back: a value, or the exception it raised
Return(val) == [ok |-> TRUE, val |-> val]
Raise(exc) == [ok |-> FALSE, exc |-> exc]

\* how dict() takes one element of a list: as a key/value pair, or the
\* exception it raises on it.  The lists of the model hold no two-character
\* string and no two-element list whose first element is a number, a bool or
\* None; no case is given for them.
ElementAsPair(el) ==
    CASE el.k \in {"null", "bool", "int", "float"} -> Raise("TypeError")
      [] el.k \in {"list", "dict", "str"} /\ Len(el.v) # 2 ->
            Raise("ValueError")
      [] el.k = "dict" /\ Len(el.v) = 2 ->
            Return(<<el.v[1][1], S(el.v[2][1])>>)
      [] el.k = "list" /\ Len(el.v) = 2 /\ el.v[1].k = "str" ->
            Return(<<el.v[1].v, el.v[2]>>)
      [] el.k = "list" /\ Len(el.v) = 2 /\ el.v[1].k \in {"list", "dict"} ->
            Raise("TypeError")

\* dict(q) for the elements q of a list, taken in order
RECURSIVE DictFromPairs(_, _)
DictFromPairs(acc, q) ==
    IF q = <<>> THEN Return(D(acc))
    ELSE LET p == ElementAsPair(Head(q))
         IN  IF p.ok THEN DictFromPairs(DictSet(acc, p.val[1], p.val[2]), Tail(q))
             ELSE p

\* dict(x)
DictCtor(x) ==
    CASE x.k = "dict" -> Return(x)
      [] x.k = "list" -> DictFromPairs(<<>>, x.v)
      [] x.k = "str" /\ x.v = "" -> Return(D(<<>>))
      [] x.k = "str" /\ x.v # "" -> Raise("ValueError")
      [] x.k \in {"null", "bool", "int", "float"} -> Raise("TypeError")

\* the field validator of input_schema and output_schema
parse_schema(v) ==
    IF IsDict(v) THEN Return(from_dict(v))
    ELSE IF v.k # "schema" THEN Raise("ValueError")
    ELSE Return(v)

\* Endpoint(id=..., name=..., description=..., input_schema=..., output_schema=...):
\* the record, or pydantic's ValidationError when a validator raises
Endpoint(id, name, description, input_schema, output_schema) ==
    LET i == parse_schema(input_schema)
        o == parse_schema(output_schema)
    IN  IF i.ok /\ o.ok
        THEN Return([k |-> "endpoint", _client |-> None, id |-> id,
                     name |-> name, description |-> description,
                     input_schema |-> i.val, output_schema |-> o.val])
        ELSE Raise("ValidationError")

\* Endpoint.example_data()
Endpoint_example_data(e) == DictCtor(example_data(e.input_schema))

\* Endpoint.example_response()
Endpoint_example_response(e) == DictCtor(example_data(e.output_schema))

\* json.dumps(x, indent=n): the text is kept as the value and its indent
JsonDumps(x, indent) == [k |-> "json", of |-> x, indent |-> indent]

\* the line that opens or closes a code block: three backquotes and the
\* language; a TLA+ string holds no backquote, <fence> stands for the three
CodeFence(lang) == "<fence>" \o lang

\* the lines of the Python snippet of make_markdown_documentation
Snippet(e, example) ==
    <<"from revrseai import RevrseAI",
      "",
      "client = RevrseAI(\"YOUR_API_KEY\")",
      "resp = client.execute(",
      "    endpoint_id=\"" \o e.id \o "\",",
      [k |-> "line", text |-> "    data=", then |-> JsonDumps(example, 4)],
      ")",
      "print(resp)">>

\* Endpoint.make_markdown_documentation(): the lines of the text
make_markdown_documentation(e) ==
    LET example == Endpoint_example_data(e)
        response == Endpoint_example_response(e)
    IN  IF ~example.ok THEN example
        ELSE IF ~response.ok THEN response
        ELSE Return(
            <<"# " \o e.name, "">>
            \o (IF Truthy(e.description)
                THEN <<"> " \o e.description.v, "">> ELSE <<>>)
            \o <<"## Input", "">>
            \o to_markdown_table(e.input_schema, None)
            \o <<"", "### Code Example", "", CodeFence("python")>>
            \o Snippet(e, example.val)
            \o <<CodeFence(""), "">>
            \o <<"## Output", "">>
            \o to_markdown_table(e.output_schema, None)
            \o <<"", "### Example Response", "", CodeFence("json")>>
            \o <<JsonDumps(response.val, 2)>>
            \o <<CodeFence("")>>)

\* the output schemas the model gives an Endpoint
OutputSchemas ==
    {D(<<>>),
     D(<< <<"type", S("object")>>,
          <<"properties", D(<< <<"a", D(<< <<"type", S("string")>> >>)>> >>)>> >>)}

\* endpoint = Endpoint(id=..., name=..., input_schema=..., output_schema=...)
NewEndpoint ==
    /\ pc = "init"
    /\ \E input_schema \in {data, from_dict(data), I(5)},
          output_schema \in OutputSchemas,
          description \in {None, S("text")} :
          LET e == Endpoint("e1", "login", description,
                            input_schema, output_schema)
          IN  /\ endpoint' = IF e.ok THEN e.val ELSE None
              /\ raised' = IF e.ok THEN "" ELSE e.exc
    /\ pc' = "Endpoint"
    /\ UNCHANGED <<data, schema, arg, result, call, sent,
                   received, task, server, log>>

\* result = endpoint.example_data()
EndpointExampleData ==
    /\ pc = "Endpoint"
    /\ ~IsNone(endpoint)
    /\ LET r == Endpoint_example_data(endpoint)
       IN  /\ result' = IF r.ok THEN r.val ELSE None
           /\ raised' = IF r.ok THEN "" ELSE r.exc
    /\ pc' = "Endpoint.example_data"
    /\ UNCHANGED <<data, schema, arg, endpoint, call, sent,
                   received, task, server, log>>

\* result = endpoint.example_response()
EndpointExampleResponse ==
    /\ pc = "Endpoint"
    /\ ~IsNone(endpoint)
    /\ LET r == Endpoint_example_response(endpoint)
       IN  /\ result' = IF r.ok THEN r.val ELSE None
           /\ raised' = IF r.ok THEN "" ELSE r.exc
    /\ pc' = "Endpoint.example_response"
    /\ UNCHANGED <<data, schema, arg, endpoint, call, sent,
                   received, task, server, log>>

\* result = endpoint.make_markdown_documentation()
MakeMarkdownDocumentation ==
    /\ pc = "Endpoint"
    /\ ~IsNone(endpoint)
    /\ LET r == make_markdown_documentation(endpoint)
       IN  /\ result' = IF r.ok THEN r.val ELSE None
           /\ raised' = IF r.ok THEN "" ELSE r.exc
    /\ pc' = "Endpoint.make_markdown_documentation"
    /\ UNCHANGED <<data, schema, arg, endpoint, call, sent,
                   received, task, server, log>>

(***************************************************************************)
(* The RevrseAI client (client.py).                                        *)
(***************************************************************************)
\* the body of a response that is no JSON document
NotJson == [k |-> "notjson"]

\* the TaskStage values (models/task.py)
TaskStage == {"analyze_task", "explore_app", "build_api", "execute", "done"}

\* the Role values (models/message.py)
Role == {"user", "agent"}

\* the client object, RevrseAI("YOUR_API_KEY"), as records refer to it
Client == [k |-> "RevrseAI", api_key |-> "YOUR_API_KEY"]

\* the documents of the server: a task whose stage is stage, without and
\* with its details, an endpoint, a message, and the answer of /api/info
TaskJson(stage) ==
    D(<< <<"id", S("t1")>>, <<"title", S("Log in")>>,
         <<"description", S("log in to the app")>>,
         <<"current_action", S("working")>>,
         <<"task_stage", S(stage)>>,
         <<"created_at", S("2025-01-01T00:00:00")>> >>)

EndpointJson ==
    D(<< <<"id", S("e1")>>, <<"name", S("login")>>,
         <<"input_schema",
           D(<< <<"type", S("object")>>,
                <<"properties",
                  D(<< <<"username", D(<< <<"type", S("string")>> >>)>> >>)>> >>)>>,
         <<"output_schema", D(<<>>)>> >>)

MessageJson ==
    D(<< <<"role", S("user")>>, <<"content", S("log in")>>,
         <<"id", S("m1")>>, <<"created_at", S("2025-01-01T00:00:00")>> >>)

TaskDetailedJson(stage) ==
    D(TaskJson(stage).v
      \o << <<"messages", L(<<MessageJson>>)>>,
            <<"endpoints",
              IF stage = "done" THEN L(<<EndpointJson>>) ELSE L(<<>>)>> >>)

InfoJson ==
    D(<< <<"app_name", S("Job Today")>>, <<"endpoints", L(<<EndpointJson>>)>> >>)

\* the responses the server gives: a status code, the body as JSON and as text
Statuses == {200, 204, 400, 401, 403, 404, 409, 422, 429, 500, 503}

Bodies ==
    {[json |-> D(<< <<"status", I(200)>>, <<"data", D(<<>>)>> >>), text |-> "{..}"],
     [json |-> D(<< <<"detail", S("denied")>> >>), text |-> "{..}"],
     [json |-> D(<<>>), text |-> "{}"],
     [json |-> TaskJson("build_api"), text |-> "{..}"],
     [json |-> TaskDetailedJson("execute"), text |-> "{..}"],
     [json |-> TaskDetailedJson("done"), text |-> "{..}"],
     [json |-> L(<<TaskJson("build_api"), TaskJson("done")>>), text |-> "[..]"],
     [json |-> InfoJson, text |-> "{..}"],
     [json |-> NotJson, text |-> "oops"],
     [json |-> NotJson, text |-> ""]}

Responses ==
    {[status_code |-> sc, json |-> b.json, text |-> b.text] :
        sc \in Statuses, b \in Bodies}

\* response.ok of the requests library: the status is no 4xx and no 5xx
ResponseOk(response) ==
    ~(400 <= response.status_code /\ response.status_code < 600)

\* str(x), kept as the value it prints
PyStr(x) == [k |-> "repr", of |-> x]

\* the exception a client call raises for an error response
RaiseAPI(exc, detail, status_code) ==
    [ok |-> FALSE, exc |-> exc, message |-> detail,
     status_code |-> status_code, detail |-> detail]

\* the try block of _handle_response_errors: the detail of an error response
ErrorDetail(response) ==
    IF IsDict(response.json)
    THEN DictGet(response.json.v, "detail", PyStr(response.json))
    ELSE IF response.text # "" THEN S(response.text) ELSE S("Unknown error")

\* _handle_response_errors without its status branches: every error
\* response raises APIError
_handle_response_errors_OnlyAPIError(response) ==
    IF ResponseOk(response) THEN Return(None)
    ELSE RaiseAPI("APIError", ErrorDetail(response), response.status_code)

\* RevrseAI._handle_response_errors(response)
_handle_response_errors(response) ==
    IF ResponseOk(response) THEN Return(None)
    ELSE LET status_code == response.status_code
             detail == ErrorDetail(response)
         IN  CASE status_code = 401 ->
                    RaiseAPI("AuthenticationError", detail, status_code)
               [] status_code = 403 ->
                    RaiseAPI("AuthorizationError", detail, status_code)
               [] status_code = 404 ->
                    RaiseAPI("NotFoundError", detail, status_code)
               [] status_code = 422 ->
                    RaiseAPI("ValidationError", detail, status_code)
               [] status_code = 429 ->
                    RaiseAPI("RateLimitError", detail, status_code)
               [] status_code \notin {401, 403, 404, 422, 429}
                  /\ status_code >= 500 ->
                    RaiseAPI("ServerError", detail, status_code)
               [] OTHER -> RaiseAPI("APIError", detail, status_code)

_BASE_URL == "https://api.revrse.ai"

\* RevrseAI._request(endpoint, data, method, params) when the server answers
\* with response: the request sent, and what the call gives back
_request(path, d, method, params, response) ==
    LET req == [method |-> IF Truthy(method) THEN method.v
                           ELSE IF Truthy(d) THEN "POST" ELSE "GET",
                url |-> _BASE_URL \o path, json |-> d, params |-> params]
        err == _handle_response_errors(response)
    IN  [sent |-> <<req>>,
         out |-> IF ~err.ok THEN err
                 ELSE IF response.json = NotJson THEN Raise("JSONDecodeError")
                 ELSE Return(response.json)]

\* Response.model_validate(body) after a request: status an int, data a dict
ResponseModelValidate(r) ==
    IF ~r.out.ok THEN r
    ELSE LET body == r.out.val
         IN  IF /\ IsDict(body)
                /\ HasKey(body.v, "status") /\ Lookup(body.v, "status").k = "int"
                /\ HasKey(body.v, "data") /\ IsDict(Lookup(body.v, "data"))
             THEN [sent |-> r.sent,
                   out |-> Return([k |-> "Response",
                                   status |-> Lookup(body.v, "status"),
                                   data |-> Lookup(body.v, "data")])]
             ELSE [sent |-> r.sent, out |-> Raise("pydantic.ValidationError")]

\* RevrseAI.execute_from_task_id(task_id, endpoint, data)
execute_from_task_id(task_id, endpoint_name, d, response) ==
    ResponseModelValidate(
        _request("/execute/" \o task_id.v \o "/" \o endpoint_name.v,
                 d, None, None, response))

\* RevrseAI.execute_from_endpoint_id(endpoint_id, data)
execute_from_endpoint_id(endpoint_id, d, response) ==
    ResponseModelValidate(
        _request("/execute/" \o endpoint_id.v, d, None, None, response))

\* execute with its branches in another order: task_id before endpoint_id
execute_TaskFirst(app, task_id, endpoint_id, endpoint_name, d, response) ==
    IF IsNone(app) /\ IsNone(task_id) /\ IsNone(endpoint_id)
    THEN [sent |-> <<>>, out |-> Raise("ValueError")]
    ELSE IF ~IsNone(task_id)
    THEN IF IsNone(endpoint_name)
         THEN [sent |-> <<>>, out |-> Raise("ValueError")]
         ELSE execute_from_task_id(task_id, endpoint_name, d, response)
    ELSE IF ~IsNone(endpoint_id)
    THEN execute_from_endpoint_id(endpoint_id, d, response)
    ELSE ResponseModelValidate(
            _request("/execute",
                     D(<< <<"app", app>>, <<"endpoint", endpoint_name>>,
                          <<"data", d>> >>),
                     None, None, response))

\* RevrseAI.execute(app, task_id, endpoint_id, endpoint, data)
execute(app, task_id, endpoint_id, endpoint_name, d, response) ==
    IF IsNone(app) /\ IsNone(task_id) /\ IsNone(endpoint_id)
    THEN [sent |-> <<>>, out |-> Raise("ValueError")]
    ELSE IF ~IsNone(endpoint_id)
    THEN execute_from_endpoint_id(endpoint_id, d, response)
    ELSE IF ~IsNone(task_id)
    THEN IF IsNone(endpoint_name)
         THEN [sent |-> <<>>, out |-> Raise("ValueError")]
         ELSE execute_from_task_id(task_id, endpoint_name, d, response)
    ELSE ResponseModelValidate(
            _request("/execute",
                     D(<< <<"app", app>>, <<"endpoint", endpoint_name>>,
                          <<"data", d>> >>),
                     None, None, response))

(***************************************************************************)
(* Task, TaskDetailed and Info (models/task.py, models/info.py) and the    *)
(* client operations that fetch them.                                      *)
(***************************************************************************)
\* body is a mapping that holds a string under every key of keys
HasStrings(body, keys) ==
    /\ IsDict(body)
    /\ \A f \in keys : HasKey(body.v, f) /\ Lookup(body.v, f).k = "str"

\* the fields a Task needs: all required, task_stage a TaskStage value
TaskFieldsValid(body) ==
    /\ HasStrings(body, {"id", "title", "description", "current_action",
                         "task_stage", "created_at"})
    /\ Lookup(body.v, "task_stage").v \in TaskStage

\* Task.model_validate(body): _client is a private attribute, None
Task_model_validate(body) ==
    IF TaskFieldsValid(body)
    THEN Return([k |-> "Task", _client |-> None,
                 id |-> Lookup(body.v, "id"),
                 title |-> Lookup(body.v, "title"),
                 description |-> Lookup(body.v, "description"),
                 current_action |-> Lookup(body.v, "current_action"),
                 task_stage |-> Lookup(body.v, "task_stage").v,
                 created_at |-> Lookup(body.v, "created_at")])
    ELSE Raise("pydantic.ValidationError")

\* Message.model_validate(body), kept as the mapping
Message_model_validate(body) ==
    IF /\ HasStrings(body, {"role", "content", "id", "created_at"})
       /\ Lookup(body.v, "role").v \in Role
    THEN Return(body)
    ELSE Raise("pydantic.ValidationError")

\* a failed validation of a field, as the ValidationError of the model
AsPydantic(e) == IF e.ok THEN e ELSE Raise("pydantic.ValidationError")

\* Endpoint.model_validate(body)
Endpoint_model_validate(body) ==
    IF /\ HasStrings(body, {"id", "name"})
       /\ HasKey(body.v, "input_schema") /\ HasKey(body.v, "output_schema")
       /\ DictGet(body.v, "description", None).k \in {"null", "str"}
    THEN AsPydantic(Endpoint(Lookup(body.v, "id").v, Lookup(body.v, "name").v,
                             DictGet(body.v, "description", None),
                             Lookup(body.v, "input_schema"),
                             Lookup(body.v, "output_schema")))
    ELSE Raise("pydantic.ValidationError")

\* the list of the values of the validations rs, when all of them passed
AllValid(rs) ==
    IF \A i \in 1..Len(rs) : rs[i].ok
    THEN Return([i \in 1..Len(rs) |-> rs[i].val])
    ELSE Raise("pydantic.ValidationError")

\* the validation of a list[Endpoint] field
EndpointList(x) ==
    IF x.k = "list"
    THEN AllValid([i \in 1..Len(x.v) |-> Endpoint_model_validate(x.v[i])])
    ELSE Raise("pydantic.ValidationError")

\* the validation of a list[Message] field
MessageList(x) ==
    IF x.k = "list"
    THEN AllValid([i \in 1..Len(x.v) |-> Message_model_validate(x.v[i])])
    ELSE Raise("pydantic.ValidationError")

\* the TaskDetailed of a valid Task body and its validated lists
TaskDetailedRecord(body, messages, endpoints) ==
    IF messages.ok /\ endpoints.ok
    THEN Return([k |-> "TaskDetailed", _client |-> None,
                 id |-> Lookup(body.v, "id"),
                 title |-> Lookup(body.v, "title"),
                 description |-> Lookup(body.v, "description"),
                 current_action |-> Lookup(body.v, "current_action"),
                 task_stage |-> Lookup(body.v, "task_stage").v,
                 created_at |-> Lookup(body.v, "created_at"),
                 messages |-> messages.val,
                 endpoints |-> endpoints.val])
    ELSE Raise("pydantic.ValidationError")

\* TaskDetailed.model_validate(body): the Task fields, messages and endpoints
TaskDetailed_model_validate(body) ==
    IF /\ TaskFieldsValid(body)
       /\ HasKey(body.v, "messages")
       /\ HasKey(body.v, "endpoints")
    THEN TaskDetailedRecord(body, MessageList(Lookup(body.v, "messages")),
                            EndpointList(Lookup(body.v, "endpoints")))
    ELSE Raise("pydantic.ValidationError")

\* the Info of a valid body and its validated endpoints
InfoRecord(body, endpoints) ==
    IF endpoints.ok
    THEN Return([k |-> "Info",
                 app_name |-> Lookup(body.v, "app_name"),
                 app_image_url |-> DictGet(body.v, "app_image_url", None),
                 app_description |-> DictGet(body.v, "app_description", None),
                 app_title |-> DictGet(body.v, "app_title", None),
                 endpoints |-> endpoints.val])
    ELSE Raise("pydantic.ValidationError")

\* Info.model_validate(body): app_name required, endpoints an empty list
\* when the body has none
Info_model_validate(body) ==
    IF /\ HasStrings(body, {"app_name"})
       /\ \A f \in {"app_image_url", "app_description", "app_title"} :
             DictGet(body.v, f, None).k \in {"null", "str"}
    THEN InfoRecord(body, EndpointList(DictGet(body.v, "endpoints", L(<<>>))))
    ELSE Raise("pydantic.ValidationError")

\* for endpoint in endpoints: endpoint._client = client
SetClient(endpoints, client) ==
    [i \in 1..Len(endpoints) |-> [endpoints[i] EXCEPT !._client = client]]

\* what for t in body gives: the elements of a list, the keys of a mapping
IterItems(body) ==
    CASE body.k = "list" -> Return(body.v)
      [] body.k = "dict" -> Return([i \in 1..Len(body.v) |-> S(body.v[i][1])])
      [] body.k = "str" -> IF body.v = "" THEN Return(<<>>)
                           ELSE Return(<<S("character")>>)
      [] OTHER -> Raise("TypeError")

\* [Task.model_validate(t) for t in q]: the list of the tasks, no client given
TaskList(q) ==
    IF ~q.ok THEN q
    ELSE IF \A i \in 1..Len(q.val) : Task_model_validate(q.val[i]).ok
    THEN Return(L([i \in 1..Len(q.val) |-> Task_model_validate(q.val[i]).val]))
    ELSE Raise("pydantic.ValidationError")

\* RevrseAI.get_tasks(): each element validated as a Task, none given a client
GetTasksResult(r) ==
    IF ~r.out.ok THEN r
    ELSE [sent |-> r.sent, out |-> TaskList(IterItems(r.out.val))]

get_tasks(response) ==
    GetTasksResult(_request("/api/tasks", None, None, None, response))

\* task._client = client on a validated Task t, after the requests sent
TaskWithClient(sent_, t, client) ==
    IF ~t.ok THEN [sent |-> sent_, out |-> t]
    ELSE [sent |-> sent_, out |-> Return([t.val EXCEPT !._client = client])]

\* task._client = client and endpoint._client = client for each endpoint of
\* a validated TaskDetailed t
DetailedWithClient(sent_, t, client) ==
    IF ~t.ok THEN [sent |-> sent_, out |-> t]
    ELSE [sent |-> sent_,
          out |-> Return([t.val EXCEPT
                     !._client = client,
                     !.endpoints = SetClient(t.val.endpoints, client)])]

\* endpoint._client = client for each endpoint of a validated Info i
InfoWithClient(sent_, i, client) ==
    IF ~i.ok THEN [sent |-> sent_, out |-> i]
    ELSE [sent |-> sent_,
          out |-> Return([i.val EXCEPT
                     !.endpoints = SetClient(i.val.endpoints, client)])]

\* the rest of get_task after its request
GetTaskResult(r) ==
    IF ~r.out.ok THEN r
    ELSE DetailedWithClient(r.sent, TaskDetailed_model_validate(r.out.val), Client)

\* RevrseAI.get_task(task_id): the detailed task; the task and each of its
\* endpoints are given the client
get_task(task_id, response) ==
    GetTaskResult(_request("/api/tasks/" \o task_id.v, None, None,
                           D(<< <<"include_details", B(TRUE)>> >>), response))

\* the rest of get_task_basic and of generate after their request
BasicTaskResult(r) ==
    IF ~r.out.ok THEN r
    ELSE TaskWithClient(r.sent, Task_model_validate(r.out.val), Client)

\* RevrseAI.get_task_basic(task_id): the task, given the client
get_task_basic(task_id, response) ==
    BasicTaskResult(_request("/api/tasks/" \o task_id.v, None, None,
                             D(<< <<"include_details", B(FALSE)>> >>), response))

\* RevrseAI.generate(task, secrets): the new task, given the client
generate(description, secrets, response) ==
    BasicTaskResult(_request("/generate",
                             D(<< <<"task", description>>, <<"secrets", secrets>> >>),
                             None, None, response))

\* the rest of info after its request
InfoResult(r) ==
    IF ~r.out.ok THEN r
    ELSE InfoWithClient(r.sent, Info_model_validate(r.out.val), Client)

\* RevrseAI.info(query): the Info, each of its endpoints given the client
info(query, response) ==
    InfoResult(_request("/api/info", None, None,
                        D(<< <<"query", query>> >>), response))

\* a copy that copies no field of the fresh task
CopyNoFields(t, fresh) ==
    IF ~fresh.out.ok THEN fresh ELSE [sent |-> fresh.sent, out |-> Return(t)]

\* Task.update with that copy
Task_update_NoCopy(t, response) ==
    IF t._client = None THEN [sent |-> <<>>, out |-> Raise("ValueError")]
    ELSE CopyNoFields(t, get_task_basic(t.id, response))

\* for field in model_fields: setattr(self, field, getattr(fresh, field)),
\* for a Task t and what the fetch of fresh gave
CopyTaskFields(t, fresh) ==
    IF ~fresh.out.ok THEN fresh
    ELSE [sent |-> fresh.sent,
          out |-> Return([t EXCEPT
                     !.id = fresh.out.val.id,
                     !.title = fresh.out.val.title,
                     !.description = fresh.out.val.description,
                     !.current_action = fresh.out.val.current_action,
                     !.task_stage = fresh.out.val.task_stage,
                     !.created_at = fresh.out.val.created_at])]

\* Task.update(): the fields of a fresh basic fetch are copied onto the task
Task_update(t, response) ==
    IF t._client = None THEN [sent |-> <<>>, out |-> Raise("ValueError")]
    ELSE CopyTaskFields(t, get_task_basic(t.id, response))

\* the same for a TaskDetailed t, whose endpoints are then given its client
CopyTaskDetailedFields(t, fresh) ==
    IF ~fresh.out.ok THEN fresh
    ELSE [sent |-> fresh.sent,
          out |-> Return([t EXCEPT
                     !.id = fresh.out.val.id,
                     !.title = fresh.out.val.title,
                     !.description = fresh.out.val.description,
                     !.current_action = fresh.out.val.current_action,
                     !.task_stage = fresh.out.val.task_stage,
                     !.created_at = fresh.out.val.created_at,
                     !.messages = fresh.out.val.messages,
                     !.endpoints = SetClient(fresh.out.val.endpoints,
                                             t._client)])]

\* TaskDetailed.update(): the fields of a fresh detailed fetch are copied
\* onto the task, and its endpoints are given the task's client
TaskDetailed_update(t, response) ==
    IF t._client = None THEN [sent |-> <<>>, out |-> Raise("ValueError")]
    ELSE CopyTaskDetailedFields(t, get_task(t.id, response))

\* t.update(), by the class of t
update(t, response) ==
    IF t.k = "TaskDetailed" THEN TaskDetailed_update(t, response)
    ELSE Task_update(t, response)

\* Task.get_detailed()
get_detailed(t, response) ==
    IF t._client = None THEN [sent |-> <<>>, out |-> Raise("ValueError")]
    ELSE get_task(t.id, response)

\* Endpoint.execute(data)
Endpoint_execute(e, d, response) ==
    IF e._client = None THEN [sent |-> <<>>, out |-> Raise("ValueError")]
    ELSE execute_from_endpoint_id(S(e.id), d, response)

\* the Task and TaskDetailed records in what a call returned
TasksOf(x) ==
    IF x.k \in {"Task", "TaskDetailed"} THEN {x}
    ELSE IF x.k = "list"
    THEN {x.v[i] : i \in {j \in 1..Len(x.v) : x.v[j].k \in {"Task", "TaskDetailed"}}}
    ELSE {}

\* the Endpoint records in what a call returned
EndpointsOf(x) ==
    IF x.k \in {"TaskDetailed", "Info"}
    THEN {x.endpoints[i] : i \in 1..Len(x.endpoints)}
    ELSE {}

\* the data mappings handed to a client call
CallData == {None, D(<<>>), D(<< <<"username", S("u")>> >>)}

\* the state after RevrseAI("YOUR_API_KEY"); the client keeps nothing but its
\* key, so every call below starts from this state
ClientInit ==
    /\ data = D(<<>>)
    /\ schema = None
    /\ pc = "client"
    /\ arg = None
    /\ result = None
    /\ raised = ""
    /\ endpoint = None
    /\ call = NoCall
    /\ sent = <<>>
    /\ received = None
    /\ task = None
    /\ server = None
    /\ log = NoLog

\* what a client call leaves: the requests it sent, its value or its exception
Finish(r, response) ==
    /\ sent' = r.sent
    /\ received' = IF r.sent = <<>> THEN None ELSE response
    /\ result' = IF r.out.ok THEN r.out.val
                 ELSE IF r.out.exc \in {"AuthenticationError", "AuthorizationError",
                                        "NotFoundError", "ValidationError",
                                        "RateLimitError", "ServerError", "APIError"}
                 THEN [k |-> "error", status_code |-> r.out.status_code,
                       detail |-> r.out.detail, message |-> r.out.message]
                 ELSE None
    /\ raised' = IF r.out.ok THEN "" ELSE r.out.exc

\* client.execute(app=..., task_id=..., endpoint_id=..., endpoint=..., data=...)
Execute ==
    /\ pc = "client"
    /\ \E app \in {None, S("Job Today")}, task_id \in {None, S("t1")},
          endpoint_id \in {None, S("e1")}, endpoint_name \in {None, S("login")},
          d \in CallData, response \in Responses :
          /\ call' = [method |-> "execute", app |-> app, task_id |-> task_id,
                      endpoint_id |-> endpoint_id, endpoint |-> endpoint_name,
                      data |-> d]
          /\ Finish(execute(app, task_id, endpoint_id, endpoint_name, d, response),
                    response)
    /\ pc' = "execute"
    /\ UNCHANGED <<data, schema, arg, endpoint, task, server, log>>

\* client.execute_from_task_id(task_id, endpoint, data)
ExecuteFromTaskId ==
    /\ pc = "client"
    /\ \E d \in CallData, response \in Responses :
          /\ call' = [method |-> "execute_from_task_id", app |-> None,
                      task_id |-> S("t1"), endpoint_id |-> None,
                      endpoint |-> S("login"), data |-> d]
          /\ Finish(execute_from_task_id(S("t1"), S("login"), d, response),
                    response)
    /\ pc' = "execute_from_task_id"
    /\ UNCHANGED <<data, schema, arg, endpoint, task, server, log>>

\* client.execute_from_endpoint_id(endpoint_id, data)
ExecuteFromEndpointId ==
    /\ pc = "client"
    /\ \E d \in CallData, response \in Responses :
          /\ call' = [method |-> "execute_from_endpoint_id", app |-> None,
                      task_id |-> None, endpoint_id |-> S("e1"),
                      endpoint |-> None, data |-> d]
          /\ Finish(execute_from_endpoint_id(S("e1"), d, response),
                    response)
    /\ pc' = "execute_from_endpoint_id"
    /\ UNCHANGED <<data, schema, arg, endpoint, task, server, log>>

\* client.get_tasks()
GetTasks ==
    /\ pc = "client"
    /\ \E response \in Responses :
          /\ call' = [method |-> "get_tasks"]
          /\ Finish(get_tasks(response), response)
    /\ pc' = "get_tasks"
    /\ UNCHANGED <<data, schema, arg, endpoint, task, server, log>>

\* client.get_task(task_id)
GetTask ==
    /\ pc = "client"
    /\ \E response \in Responses :
          /\ call' = [method |-> "get_task", task_id |-> S("t1")]
          /\ Finish(get_task(S("t1"), response), response)
    /\ pc' = "get_task"
    /\ UNCHANGED <<data, schema, arg, endpoint, task, server, log>>

\* client.get_task_basic(task_id)
GetTaskBasic ==
    /\ pc = "client"
    /\ \E response \in Responses :
          /\ call' = [method |-> "get_task_basic", task_id |-> S("t1")]
          /\ Finish(get_task_basic(S("t1"), response), response)
    /\ pc' = "get_task_basic"
    /\ UNCHANGED <<data, schema, arg, endpoint, task, server, log>>

\* client.generate(task, secrets)
Generate ==
    /\ pc = "client"
    /\ \E secrets \in {None, D(<< <<"password", S("p")>> >>)},
          response \in Responses :
          /\ call' = [method |-> "generate", task |-> S("log in to the app"),
                      secrets |-> secrets]
          /\ Finish(generate(S("log in to the app"), secrets, response), response)
    /\ pc' = "generate"
    /\ UNCHANGED <<data, schema, arg, endpoint, task, server, log>>

\* client.info(query)
GetInfo ==
    /\ pc = "client"
    /\ \E response \in Responses :
          /\ call' = [method |-> "info", query |-> S("Job Today")]
          /\ Finish(info(S("Job Today"), response), response)
    /\ pc' = "info"
    /\ UNCHANGED <<data, schema, arg, endpoint, task, server, log>>

\* the caller holds what a fetch or a method of a fetched record returned
Holds ==
    /\ pc \in {"get_tasks", "get_task", "get_task_basic", "generate", "info",
               "Task.update", "Task.get_detailed"}
    /\ raised = ""

\* what t.update() leaves when it gave r: the task changed in place, unless
\* it raised
Updated(t, r, response) ==
    /\ task' = IF r.out.ok THEN r.out.val ELSE t
    /\ Finish(r, response)

\* t.update() on a task t the caller holds; the task is changed in place
\* and returned
TaskUpdate ==
    /\ Holds
    /\ \E t \in TasksOf(result), response \in Responses :
          /\ call' = [method |-> "Task.update"]
          /\ Updated(t, update(t, response), response)
    /\ pc' = "Task.update"
    /\ UNCHANGED <<data, schema, arg, endpoint, server, log>>

\* t.get_detailed() on a task t the caller holds
TaskGetDetailed ==
    /\ Holds
    /\ \E t \in TasksOf(result), response \in Responses :
          /\ call' = [method |-> "Task.get_detailed"]
          /\ task' = t
          /\ Finish(get_detailed(t, response), response)
    /\ pc' = "Task.get_detailed"
    /\ UNCHANGED <<data, schema, arg, endpoint, server, log>>

\* e.execute(data) on an endpoint e of a record the caller holds
EndpointExecute ==
    /\ Holds
    /\ \E e \in EndpointsOf(result), d \in CallData, response \in Responses :
          /\ call' = [method |-> "Endpoint.execute", data |-> d]
          /\ endpoint' = e
          /\ Finish(Endpoint_execute(e, d, response), response)
    /\ pc' = "Endpoint.execute"
    /\ UNCHANGED <<data, schema, arg, task, server, log>>

ClientNext ==
    \/ Execute
    \/ ExecuteFromTaskId
    \/ ExecuteFromEndpointId
    \/ GetTasks
    \/ GetTask
    \/ GetTaskBasic
    \/ Generate
    \/ GetInfo
    \/ TaskUpdate
    \/ TaskGetDetailed
    \/ EndpointExecute

ClientSpec == ClientInit /\ [][ClientNext]_vars

(***************************************************************************)
(* Task.wait_till_done (models/task.py), step by step, against a server    *)
(* whose task moves through its stages.                                    *)
(***************************************************************************)
\* a counter of the log, one further
Inc(n) == IF n < MaxCount THEN n + 1 ELSE MaxCount

\* the log after an operation that sent the requests q
Logged(l, q) ==
    [l EXCEPT
        !.basic = IF q # <<>> /\ q[1].params = D(<< <<"include_details", B(FALSE)>> >>)
                  THEN Inc(@) ELSE @,
        !.detailed = IF q # <<>> /\ q[1].params = D(<< <<"include_details", B(TRUE)>> >>)
                     THEN Inc(@) ELSE @]

\* a loop condition that also takes the execute stage for the end
NotDone_OrExecute(t) == t.task_stage \notin {"execute", "done"}

\* the condition of the while loop of wait_till_done
NotDone(t) == t.task_stage # "done"

\* the answer 200 with the document doc
OkAnswer(doc) == [status_code |-> 200, json |-> doc, text |-> "{..}"]

\* what the server answers to GET /api/tasks/{id} while its task is in
\* stage: the task, with its details when they are asked for, or an error
ServerAnswers(stage, include_details) ==
    {OkAnswer(IF include_details THEN TaskDetailedJson(stage) ELSE TaskJson(stage)),
     [status_code |-> 404, json |-> D(<< <<"detail", S("no such task")>> >>),
      text |-> "{..}"],
     [status_code |-> 503, json |-> NotJson, text |-> ""]}

\* the records a caller holds for a task the server has in stage: the Task
\* of generate, the TaskDetailed of get_task, a Task of get_tasks
Fetched(stage) ==
    {generate(S("log in to the app"), None, OkAnswer(TaskJson(stage))).out.val,
     get_task(S("t1"), OkAnswer(TaskDetailedJson(stage))).out.val,
     get_tasks(OkAnswer(L(<<TaskJson(stage)>>))).out.val.v[1]}

\* the state after a fetch: the caller holds a record of the task
WaitInit ==
    /\ server \in TaskStage
    /\ task \in Fetched(server)
    /\ pc = "fetched"
    /\ data = D(<<>>)
    /\ schema = None
    /\ arg = None
    /\ result = None
    /\ raised = ""
    /\ endpoint = None
    /\ call = NoCall
    /\ sent = <<>>
    /\ received = None
    /\ log = NoLog

\* the task moves to another stage on the server, whatever the caller does
ServerStep ==
    /\ \E stage \in TaskStage \ {server} : server' = stage
    /\ UNCHANGED <<data, schema, pc, arg, result, raised, endpoint, call, sent,
                   received, task, log>>

\* task.wait_till_done() is called
WaitTillDone ==
    /\ pc = "fetched"
    /\ call' = [method |-> "Task.wait_till_done", task_stage |-> task.task_stage]
    /\ pc' = "wait.check"
    /\ UNCHANGED <<data, schema, arg, result, raised, endpoint, sent,
                   received, task, server, log>>

\* while self.task_stage != TaskStage.DONE
WaitCheck ==
    /\ pc = "wait.check"
    /\ pc' = IF NotDone(task) THEN "wait.update" ELSE "wait.get_detailed"
    /\ UNCHANGED <<data, schema, arg, result, raised, endpoint, call, sent,
                   received, task, server, log>>

\* what self.update() in the loop leaves when it gave r
Polled(r, response) ==
    /\ task' = IF r.out.ok THEN r.out.val ELSE task
    /\ sent' = r.sent
    /\ received' = IF r.sent = <<>> THEN None ELSE response
    /\ raised' = IF r.out.ok THEN "" ELSE r.out.exc
    /\ log' = [Logged(log, r.sent) EXCEPT
                  !.polls = IF r.sent # <<>> THEN Inc(@) ELSE @]
    /\ pc' = IF r.out.ok THEN "wait.sleep" ELSE "wait.raised"

\* self.update() in the loop; an exception ends wait_till_done
WaitUpdate ==
    /\ pc = "wait.update"
    /\ \E response \in ServerAnswers(server, task.k = "TaskDetailed") :
          Polled(update(task, response), response)
    /\ UNCHANGED <<data, schema, arg, result, endpoint, call, server>>

\* time.sleep(10) in the loop
WaitSleep ==
    /\ pc = "wait.sleep"
    /\ log' = [log EXCEPT !.sleeps = Inc(@)]
    /\ pc' = "wait.check"
    /\ UNCHANGED <<data, schema, arg, result, raised, endpoint, call, sent,
                   received, task, server>>

\* what return self.get_detailed() leaves when get_detailed gave r
Returned(r, response) ==
    /\ result' = IF r.out.ok THEN r.out.val ELSE None
    /\ sent' = r.sent
    /\ received' = IF r.sent = <<>> THEN None ELSE response
    /\ raised' = IF r.out.ok THEN "" ELSE r.out.exc
    /\ log' = Logged(log, r.sent)
    /\ pc' = IF r.out.ok THEN "wait.returned" ELSE "wait.raised"

\* return self.get_detailed()
WaitGetDetailed ==
    /\ pc = "wait.get_detailed"
    /\ \E response \in ServerAnswers(server, TRUE) :
          Returned(get_detailed(task, response), response)
    /\ UNCHANGED <<data, schema, arg, endpoint, call, task, server>>

WaitNext ==
    \/ ServerStep
    \/ WaitTillDone
    \/ WaitCheck
    \/ WaitUpdate
    \/ WaitSleep
    \/ WaitGetDetailed

\* the caller's thread keeps running: a step of it that can be taken is
\* taken; nothing is asked of the server
WaitSpec ==
    /\ WaitInit
    /\ [][WaitNext]_vars
    /\ WF_vars(WaitTillDone)
    /\ WF_vars(WaitCheck)
    /\ WF_vars(WaitUpdate)
    /\ WF_vars(WaitSleep)
    /\ WF_vars(WaitGetDetailed)

Next ==
    \/ FromDict
    \/ ToDict
    \/ Reserialize
    \/ ExampleData
    \/ FormatType
    \/ ToMarkdownTable
    \/ NewEndpoint
    \/ EndpointExampleData
    \/ EndpointExampleResponse
    \/ MakeMarkdownDocumentation

Spec == Init /\ [][Next]_vars

(***************************************************************************)
(* Claims about SchemaObject.                                              *)
(***************************************************************************)
\* a == b on JSON values: dicts compare without regard to key order
RECURSIVE JsonEq(_, _)
JsonEq(a, b) ==
    IF a.k # b.k THEN FALSE
    ELSE CASE a.k = "dict" ->
                /\ Len(a.v) = Len(b.v)
                /\ KeySet(a.v) = KeySet(b.v)
                /\ \A key \in KeySet(a.v) :
                      JsonEq(Lookup(a.v, key), Lookup(b.v, key))
           [] a.k = "list" ->
                /\ Len(a.v) = Len(b.v)
                /\ \A i \in 1..Len(a.v) : JsonEq(a.v[i], b.v[i])
           [] a.k = "null" -> TRUE
           [] OTHER -> a.v = b.v

\* the mapping under key of the mapping m, or the empty mapping
SubDict(m, key) ==
    IF HasKey(m.v, key) /\ IsDict(Lookup(m.v, key))
    THEN Lookup(m.v, key) ELSE D(<<>>)

\* wherever both mappings hold properties, the names come in the same order
RECURSIVE SamePropertyOrder(_, _)
SamePropertyOrder(m, out) ==
    LET pm == SubDict(m, "properties").v
        po == SubDict(out, "properties").v
    IN  /\ KeySeq(pm) = KeySeq(po)
        /\ \A i \in 1..Len(pm) :
              IsDict(pm[i][2]) /\ IsDict(po[i][2])
                  => SamePropertyOrder(pm[i][2], po[i][2])
        /\ HasKey(m.v, "items") /\ HasKey(out.v, "items")
              => SamePropertyOrder(SubDict(m, "items"), SubDict(out, "items"))

RoundTrip(m, out) == JsonEq(out, m) /\ SamePropertyOrder(m, out)

\* to_dict emits every known key of the mapping m as it stands: no known
\* key holds a value to_dict takes for unset, and every nested schema is a
\* mapping of the same kind
RECURSIVE NoDefaults(_)
NoDefaults(m) ==
    \A i \in 1..Len(m.v) :
        LET key == m.v[i][1]
            val == m.v[i][2]
        IN  CASE key \in {"type", "format", "description", "title",
                          "enum", "required"} -> Truthy(val)
              [] key = "nullable" -> val.k = "bool" /\ val.v
              [] key = "example" -> ~IsNone(val)
              [] key = "properties" ->
                    /\ IsDict(val)
                    /\ Len(val.v) > 0
                    /\ \A j \in 1..Len(val.v) :
                          IsDict(val.v[j][2]) /\ NoDefaults(val.v[j][2])
              [] key = "items" -> IsDict(val) /\ NoDefaults(val)
              [] OTHER -> TRUE

\* C1 as stated: from_dict(m).to_dict() is semantically equal to m, with the
\* order of properties preserved, for every schema mapping m, falsy values
\* under known keys and non-mapping nested schemas included.
C1_RoundTrip == pc = "to_dict" => RoundTrip(data, result)

\* C1 amended: from_dict(m).to_dict() is semantically equal to m, with the
\* order of properties preserved, for every schema mapping m in which no
\* known key holds a value to_dict omits (type, format, description, title,
\* enum and required truthy, nullable true, example not null, properties a
\* non-empty mapping) and every value under items or under a property is
\* such a mapping.
C1_RoundTripNoDefaults ==
    pc = "to_dict" /\ NoDefaults(data) => RoundTrip(data, result)

C1_Witness ==
    /\ pc = "to_dict"
    /\ NoDefaults(data)
    /\ Len(SubDict(data, "properties").v) = 2
    /\ HasKey(SubDict(SubDict(data, "properties"), "b").v, "x-ext")
    /\ KeySeq(data.v) # KeySeq(result.v)
    /\ RoundTrip(data, result)

\* the example the policy of C2 gives for the schema s
RECURSIVE C2_Policy(_)
C2_Policy(s) ==
    LET isObject == s.type = S("object") \/ Len(s.properties) > 0
        hasEnum == s.enum.k = "list" /\ Len(s.enum.v) > 0
    IN  CASE s.example.k # "null" -> s.example
          [] s.example.k = "null" /\ hasEnum -> Head(s.enum.v)
          [] s.example.k = "null" /\ ~hasEnum /\ isObject ->
                D([i \in 1..Len(s.properties) |->
                    <<s.properties[i][1], C2_Policy(s.properties[i][2])>>])
          [] OTHER ->
                CASE s.type = S("array") /\ s.items.k = "null" -> L(<<>>)
                  [] s.type = S("array") /\ s.items.k # "null" ->
                        L(<<C2_Policy(s.items)>>)
                  [] s.type = S("string") -> S("...")
                  [] s.type = S("integer") -> I(0)
                  [] s.type = S("number") -> F(0)
                  [] s.type = S("boolean") -> B(FALSE)
                  [] OTHER -> None

\* C2: example_data() is the policy's value: the example if set, else the
\* first enum element, else for an object the map of the properties in
\* declared order, else for an array the one-element or empty list, else the
\* primitive's value, else null.
C2_ExampleDataPolicy ==
    pc = "example_data" =>
        /\ result = C2_Policy(schema)
        /\ IsNone(schema.example) /\ ~Truthy(schema.enum)
           /\ Len(SubDict(data, "properties").v) > 0
              => KeySeq(result.v) = KeySeq(SubDict(data, "properties").v)

C2_Witness ==
    /\ pc = "example_data"
    /\ ~IsNone(schema.example)
    /\ Truthy(schema.enum)
    /\ result = schema.example
    /\ result # schema.enum.v[1]

\* the Required cell to_markdown_table is to give the property name: by the
\* override whenever one is given, by the schema's own required list otherwise
C3_Required(s, override, name) ==
    IF InList(name, IF IsNone(override) THEN s.required ELSE override)
    THEN "Yes" ELSE "No"

\* C3: the Required cell of every row is "Yes" exactly when the property is
\* in the caller's override list whenever an override is given (an empty
\* one included), and in the schema's own required list only otherwise.
C3_RequiredByOverride ==
    pc = "to_markdown_table" /\ Len(schema.properties) > 0 =>
        \A i \in 1..Len(schema.properties) :
            LET name == schema.properties[i][1]
                prop == schema.properties[i][2]
            IN  result[i + 2] =
                    TableRow(name, _format_type(prop),
                             C3_Required(schema, arg, name),
                             IF Truthy(prop.description)
                             THEN prop.description.v ELSE "-")

\* the type string C4 describes; a type or format is set when it is
\* neither None nor empty
RECURSIVE C4_TypeString(_)
C4_TypeString(s) ==
    LET base == IF s.type.k = "str" /\ s.type.v # "" THEN s.type.v ELSE "any"
        hasFormat == s.format.k = "str" /\ s.format.v # ""
        whole ==
            CASE s.type = S("array") /\ s.items.k # "null" ->
                    "array[" \o C4_TypeString(s.items) \o "]"
              [] ~(s.type = S("array") /\ s.items.k # "null") /\ hasFormat ->
                    base \o " (" \o s.format.v \o ")"
              [] OTHER -> base
    IN  IF s.nullable = B(TRUE) THEN whole \o "?" ELSE whole

\* C4: the formatted type is the type or "any", with the format suffix, the
\* whole replaced by array[<items>] for an array with items, and "?" last
\* if and only if nullable.
C4_FormatTypeOrder == pc = "_format_type" => result = S(C4_TypeString(schema))

C4_Witness ==
    /\ pc = "_format_type"
    /\ Truthy(schema.format)
    /\ ~IsNone(schema.items)
    /\ result = S("array[array[integer]]")

\* every unknown key of m is in out with the value m gives it, and so at
\* every level below, through each property that is a mapping and through
\* items when it is a mapping
RECURSIVE ExtrasKept(_, _)
ExtrasKept(m, out) ==
    /\ \A i \in 1..Len(m.v) :
          m.v[i][1] \notin known_fields =>
              /\ HasKey(out.v, m.v[i][1])
              /\ Lookup(out.v, m.v[i][1]) = m.v[i][2]
    /\ \A i \in 1..Len(SubDict(m, "properties").v) :
          LET name == SubDict(m, "properties").v[i][1]
              child == SubDict(m, "properties").v[i][2]
          IN  IsDict(child) =>
                  /\ HasKey(SubDict(out, "properties").v, name)
                  /\ ExtrasKept(child,
                                Lookup(SubDict(out, "properties").v, name))
    /\ HasKey(m.v, "items") /\ IsDict(Lookup(m.v, "items")) =>
          /\ HasKey(out.v, "items")
          /\ ExtrasKept(Lookup(m.v, "items"), Lookup(out.v, "items"))

\* C5: every unknown key of the input mapping is in from_dict(m).to_dict()
\* with exactly its value, at every level reached through a mapping-valued
\* property or a mapping-valued items.
C5_UnknownKeysKept == pc = "to_dict" => ExtrasKept(data, result)

C5_Witness ==
    /\ pc = "to_dict"
    /\ HasKey(data.v, "x-ext")
    /\ HasKey(SubDict(SubDict(data, "properties"), "a").v, "x-ext")
    /\ HasKey(SubDict(SubDict(result, "properties"), "a").v, "x-ext")

\* the SchemaObject p is the placeholder C6 describes
C6_IsPlaceholder(p) ==
    /\ IsNone(p.type)
    /\ p.nullable = B(FALSE)
    /\ IsNone(p.enum)
    /\ Len(p.properties) = 0
    /\ IsNone(p.items)

\* C6: a value under properties that is no mapping parses to a default
\* SchemaObject under the same name at the same position, and the sibling
\* properties that are mappings are parsed as from_dict parses them.
C6_TolerantParsing ==
    pc = "from_dict" =>
        LET props == SubDict(data, "properties").v
        IN  /\ Len(schema.properties) = Len(props)
            /\ \A i \in 1..Len(props) :
                  /\ schema.properties[i][1] = props[i][1]
                  /\ IF IsDict(props[i][2])
                     THEN schema.properties[i][2] = from_dict(props[i][2])
                     ELSE C6_IsPlaceholder(schema.properties[i][2])

C6_Witness ==
    /\ pc = "from_dict"
    /\ Len(schema.properties) = 2
    /\ ~IsDict(SubDict(data, "properties").v[1][2])
    /\ IsDict(SubDict(data, "properties").v[2][2])
    /\ C6_IsPlaceholder(schema.properties[1][2])
    /\ schema.properties[2][2].type = S("integer")

\* C7: parsing the mapping to_dict gave and serializing again gives the same
\* mapping: from_dict(s.to_dict()).to_dict() = s.to_dict().
C7_SerializeIdempotent == pc = "reserialized" => result = arg

C7_Witness ==
    /\ pc = "reserialized"
    /\ ~JsonEq(arg, data)
    /\ HasKey(arg.v, "properties")
    /\ HasKey(arg.v, "required")
    /\ result = arg

\* C8: the table is exactly "_No fields_" if and only if there are no
\* properties; otherwise it is the header row, the separator row and one row
\* per property in insertion order: 2 + (number of properties) lines.
C8_TableShape ==
    pc = "to_markdown_table" =>
        LET props == SubDict(data, "properties").v
        IN  /\ result = <<"_No fields_">> <=> Len(props) = 0
            /\ Len(props) > 0 =>
                  /\ Len(result) = 2 + Len(props)
                  /\ result[1] = "| Field | Type | Required | Description |"
                  /\ result[2] = "|-------|------|----------|-------------|"
                  /\ \A i \in 1..Len(props) :
                        result[i + 2] =
                            PropertyRow(props[i][1], schema.properties[i][2],
                                        EffectiveRequired(schema, arg))

C8_Witness ==
    /\ pc = "to_markdown_table"
    /\ Len(schema.properties) = 2
    /\ Len(result) = 4
    /\ result[3] # result[4]
    /\ result[3] = "| b | integer | No | - |"
    /\ result[4] = "| a | any | Yes | text |"

(***************************************************************************)
(* Claims about Endpoint.                                                  *)
(***************************************************************************)
\* C9: Endpoint.example_data() returns a dictionary with an example value
\* for every input field for every Endpoint whose input_schema was accepted,
\* and so make_markdown_documentation() completes and returns text.
C9_EndpointExampleIsDict ==
    /\ pc = "Endpoint.example_data" =>
          /\ raised = ""
          /\ IsDict(result)
          /\ \A i \in 1..Len(endpoint.input_schema.properties) :
                HasKey(result.v, endpoint.input_schema.properties[i][1])
    /\ pc = "Endpoint.make_markdown_documentation" => raised = ""

(***************************************************************************)
(* Claims about the client.                                                *)
(***************************************************************************)
\* C10: a call to execute that gives app or task_id, gives no endpoint_id
\* and leaves endpoint unset raises ValueError and sends no HTTP request.
C10_EndpointNameRequired ==
    /\ pc = "execute"
    /\ ~IsNone(call.app) \/ ~IsNone(call.task_id)
    /\ IsNone(call.endpoint_id)
    /\ IsNone(call.endpoint)
    => raised = "ValueError" /\ sent = <<>>

(***************************************************************************)
(* Claims about the records the client fetches.                            *)
(***************************************************************************)
\* the Endpoint records inside the tasks of what a call returned
EndpointsInTasks(x) ==
    UNION {IF t.k = "TaskDetailed"
           THEN {t.endpoints[i] : i \in 1..Len(t.endpoints)} ELSE {} :
           t \in TasksOf(x)}

\* C11: every Task and TaskDetailed a fetch operation returns, and every
\* Endpoint inside a returned TaskDetailed or Info, has its client reference
\* set to the client, and so update, get_detailed and Endpoint.execute on
\* them never raise the "Client not set" ValueError.
C11_BackReferences ==
    /\ Holds =>
          /\ \A t \in TasksOf(result) : t._client = Client
          /\ \A e \in EndpointsOf(result) \cup EndpointsInTasks(result) :
                e._client = Client
    /\ pc \in {"Task.update", "Task.get_detailed", "Endpoint.execute"}
          => raised # "ValueError"


(***************************************************************************)
(* Claims about the error mapping and the request dispatch of the client.  *)
(***************************************************************************)
\* the exceptions of exceptions.py that carry a status code
APIErrors ==
    {"AuthenticationError", "AuthorizationError", "NotFoundError",
     "ValidationError", "RateLimitError", "ServerError", "APIError"}

\* the error kind that belongs to the status code of an error response
C12_Kind(status_code) ==
    IF status_code = 401 THEN "AuthenticationError"
    ELSE IF status_code = 403 THEN "AuthorizationError"
    ELSE IF status_code = 404 THEN "NotFoundError"
    ELSE IF status_code = 422 THEN "ValidationError"
    ELSE IF status_code = 429 THEN "RateLimitError"
    ELSE IF status_code >= 500 THEN "ServerError"
    ELSE "APIError"

\* C12: a call whose response is OK raises none of the API errors; a call
\* whose response is not OK raises the one error that belongs to the status
\* code, with the status code of the response and, as its detail, the detail
\* the server sent (the text of the body when the body is no JSON); only
\* the one request has been sent.
C12_ErrorMapping ==
    received # None =>
        IF ResponseOk(received) THEN raised \notin APIErrors
        ELSE /\ raised = C12_Kind(received.status_code)
             /\ result.k = "error"
             /\ result.status_code = received.status_code
             /\ (IsDict(received.json) /\ HasKey(received.json.v, "detail"))
                    => result.detail = Lookup(received.json.v, "detail")
             /\ (received.json = NotJson /\ received.text # "")
                    => result.detail = S(received.text)
             /\ Len(sent) = 1

C12_Witness ==
    /\ pc = "get_task"
    /\ received # None
    /\ received.status_code = 403
    /\ raised = "AuthorizationError"
    /\ result.status_code = 403
    /\ result.detail = S("denied")
    /\ Len(sent) = 1

\* C14: a request sent without an explicit method is a POST when the call
\* has a data body, an empty mapping included, and a GET only when it has
\* none; so every execute_from_task_id and execute_from_endpoint_id call that
\* is given a data mapping is sent as POST.
C14_DefaultMethod ==
    /\ \A i \in 1..Len(sent) :
          sent[i].method = IF IsNone(sent[i].json) THEN "GET" ELSE "POST"
    /\ (/\ pc \in {"execute_from_task_id", "execute_from_endpoint_id"}
        /\ IsDict(call.data))
          => sent[1].method = "POST"

C13_ReturnsOnlyDone ==
    pc \in {"wait.get_detailed", "wait.returned"} => task.task_stage = "done"

\* a task that is done at the call is neither polled nor slept for
C13_NoPollWhenDone ==
    (pc \in {"wait.check", "wait.update", "wait.sleep", "wait.get_detailed",
             "wait.returned", "wait.raised"}
     /\ call.task_stage = "done")
        => log.polls = 0 /\ log.sleeps = 0

\* one sleep follows each poll fetch before the stage is checked again
C13_OneSleepPerPoll ==
    /\ pc = "wait.sleep" => log.polls = Inc(log.sleeps)
    /\ pc \in {"wait.check", "wait.update", "wait.get_detailed", "wait.returned"}
          => log.sleeps = log.polls

\* C13, as stated: wait_till_done never returns while the stage last seen is
\* not done, neither polls nor sleeps for a task that is done at the call,
\* sleeps once after every poll fetch before it checks the stage again, and
\* makes exactly one detailed fetch, after the loop.
C13_WaitLoop ==
    /\ C13_ReturnsOnlyDone
    /\ C13_NoPollWhenDone
    /\ C13_OneSleepPerPoll
    /\ pc = "wait.returned" =>
          /\ log.detailed = 1
          /\ sent[1].params = D(<< <<"include_details", B(TRUE)>> >>)

\* C13, amended: as above, but the one detailed fetch after the loop is the
\* only detailed fetch when the task is a plain Task; a TaskDetailed polls
\* with detailed fetches (TaskDetailed.update calls get_task), one per poll,
\* and makes one more after the loop.
C13_WaitLoopByClass ==
    /\ C13_ReturnsOnlyDone
    /\ C13_NoPollWhenDone
    /\ C13_OneSleepPerPoll
    /\ pc = "wait.returned" =>
          /\ sent[1].params = D(<< <<"include_details", B(TRUE)>> >>)
          /\ task.k = "Task" => log.detailed = 1 /\ log.basic = log.polls
          /\ task.k = "TaskDetailed" =>
                log.detailed = Inc(log.polls) /\ log.basic = 0

C13_Witness ==
    /\ pc = "wait.returned"
    /\ task.k = "Task"
    /\ call.task_stage = "build_api"
    /\ log.polls = 2 /\ log.sleeps = 2 /\ log.detailed = 1
    /\ result.k = "TaskDetailed"

\* wait_till_done has returned a TaskDetailed whose stage is done
C16_ReturnedDone ==
    /\ pc = "wait.returned"
    /\ result.k = "TaskDetailed"
    /\ result.task_stage = "done"

\* C16: for a task whose client is set, when no fetch fails and the server
\* comes to report done and from then on keeps reporting it, wait_till_done
\* eventually returns a TaskDetailed whose stage is done; when the server
\* never reports done, wait_till_done never returns.
C16_WaitLiveness ==
    /\ (/\ task._client = Client
        /\ [](raised = "")
        /\ <>(server = "done")
        /\ [](server = "done" => [](server = "done")))
          => <>C16_ReturnedDone
    /\ [](server # "done") => [](pc # "wait.returned")

C16_Witness ==
    /\ C16_ReturnedDone
    /\ task._client = Client
    /\ log.polls = MaxCount
    /\ server = "done"

====
